---------------------------- MODULE Spec2Model ----------------------------
(***************************************************************************)
(* PulsePointDatabase: the UEX synchronisation tasks (UpdateCommodities,   *)
(* UpdateStarSystems) and the record hooks (CreateOutpostCommodities,      *)
(* CreateCommodityChanges) over the PocketBase record store.               *)
(*                                                                         *)
(* A collection is a sequence of rows in insertion order; a row's id is    *)
(* assigned when it is saved for the first time and never changes.  Rows   *)
(* are never deleted by any code of the repository.  Names are sequences   *)
(* of characters, so that the case-insensitive substring tests are         *)
(* computed and not assumed.                                               *)
(***************************************************************************)
EXTENDS Integers, Sequences, FiniteSets, TLC

VARIABLES
    commodities,          \* collection "commodities"
    star_systems,         \* collection "star_systems"
    planets,              \* collection "planets"
    moons,                \* collection "moons"
    space_stations,       \* collection "space_stations"
    outposts,             \* collection "outposts"
    outpost_commodities,  \* collection "outpost_commodities"
    commodity_changes,    \* collection "commodity_changes"
    catalogue,            \* the commodity records the UEX API serves
    cm,                   \* what the last UpdateCommodities pass did
    uex,                  \* the star-system data the UEX API serves
    ss,                   \* position and locals of UpdateStarSystems
    tx,                   \* what the last UpdateStarSystems transaction did
    trace,                \* fetches and transactions of the current pass
    hk,                   \* what the last hook invocation did
    env                   \* store failures and upstream changes so far

vars == <<commodities, star_systems, planets, moons, space_stations,
          outposts, outpost_commodities, commodity_changes,
          catalogue, cm, uex, ss, tx, trace, hk, env>>

(***************************************************************************)
(* Bounds of the model.                                                    *)
(***************************************************************************)
\* longest "data" array of a /commodities response
MaxData == 2
\* Save calls of the star-system pass that fail, over one behaviour
MaxFaults == 1
\* changes of the upstream star-system data, over one behaviour
MaxEditions == 1
\* outposts created, over one behaviour
MaxOutposts == 2
\* rows of commodity_changes, over one behaviour
MaxChangeRows == 2

(***************************************************************************)
(* Strings.                                                                *)
(***************************************************************************)
UpperToLower ==
    [c \in {"A","B","C","D","E","F","G","H","I","J","K","L","M",
            "N","O","P","Q","R","S","T","U","V","W","X","Y","Z"} |->
        CASE c = "A" -> "a" [] c = "B" -> "b" [] c = "C" -> "c"
          [] c = "D" -> "d" [] c = "E" -> "e" [] c = "F" -> "f"
          [] c = "G" -> "g" [] c = "H" -> "h" [] c = "I" -> "i"
          [] c = "J" -> "j" [] c = "K" -> "k" [] c = "L" -> "l"
          [] c = "M" -> "m" [] c = "N" -> "n" [] c = "O" -> "o"
          [] c = "P" -> "p" [] c = "Q" -> "q" [] c = "R" -> "r"
          [] c = "S" -> "s" [] c = "T" -> "t" [] c = "U" -> "u"
          [] c = "V" -> "v" [] c = "W" -> "w" [] c = "X" -> "x"
          [] c = "Y" -> "y" [] OTHER -> "z"]

\* strings.ToLower
ToLower(str) ==
    [i \in 1..Len(str) |->
        IF str[i] \in DOMAIN UpperToLower THEN UpperToLower[str[i]] ELSE str[i]]

\* strings.Contains
Contains(str, substr) ==
    \E i \in 0..(Len(str) - Len(substr)) :
        SubSeq(str, i + 1, i + Len(substr)) = substr

ContainsIgnoreCase(str, substr) ==
    Contains(ToLower(str), ToLower(substr))

ConvertToBool(val) == val = 1

\* record.Set of an int16 on a bool field: the store casts it, non-zero is true
CastToBool(val) == val # 0

StrYearOfThe == <<"y","e","a","r"," ","o","f"," ","t","h","e">>
StrOre == <<"o","r","e">>
StrRaw == <<"r","a","w">>

(***************************************************************************)
(* The record store.                                                       *)
(***************************************************************************)
\* a lookup that finds no row, whatever the store holds
FindNoRecord(rows, field, value) == 0

\* index of the first row whose field equals value, 0 when there is none
\* (the callers treat every error of the lookup as "not found")
FindFirstRecordByData(rows, field, value) ==
    IF \E i \in 1..Len(rows) : rows[i][field] = value
    THEN CHOOSE i \in 1..Len(rows) :
            /\ rows[i][field] = value
            /\ \A j \in 1..(i - 1) : rows[j][field] # value
    ELSE 0

\* the id the store gives to a row saved for the first time
NewId(rows) == Len(rows) + 1

\* the body run outside of a transaction: what it wrote stays
RunWithoutTransaction(before, result) == result.rows

\* a transaction commits the work of its body, or none of it on an error
RunInTransaction(before, result) ==
    IF result.err THEN before ELSE result.rows

(***************************************************************************)
(* UpdateCommodities.                                                      *)
(***************************************************************************)
NameGold == <<"G","o","l","d">>
NameGoldOre == <<"G","o","l","d"," ","O","r","e">>
NameRawOre == <<"R","a","w"," ","O","r","e">>
NameRawIce == <<"R","a","w"," ","I","c","e">>
NameYear == <<"Y","e","a","r"," ","O","f"," ","T","h","e"," ","P","i","g">>

CommodityNames == {NameGold, NameGoldOre, NameRawOre, NameRawIce, NameYear}
CommodityCodes == {"GOLD", "IRON"}
CommodityTypes == {"Metal", "Temporary"}
FlagValues == {0, 1, 2}

\* the everyday record of a code: listed, sellable, legal
BaseCommodity(code) ==
    [Name |-> NameGold, Code |-> code, Type |-> "Metal", PriceBuy |-> 3,
     PriceSell |-> 5, IsIllegal |-> 0, IsAvailableLive |-> 1,
     IsTemporary |-> 0, IsSellable |-> 1]

\* how many fields of a record differ from the everyday record of its code
Deviations(c) ==
    Cardinality({f \in DOMAIN c : c[f] # BaseCommodity(c.Code)[f]})

\* the records a /commodities response is made of
UexCommodities ==
    {c \in [Name : CommodityNames, Code : CommodityCodes, Type : CommodityTypes,
            PriceBuy : {3, 4}, PriceSell : {0, 5}, IsIllegal : FlagValues,
            IsAvailableLive : FlagValues, IsTemporary : {0, 1},
            IsSellable : {0, 1}] :
        \/ Deviations(c) <= 1
        \/ (Deviations(c) = 2 /\ c.Type = "Temporary" /\ c.PriceSell = 0)}

\* the API serves, over one behaviour, responses made of two record versions
Catalogues == {{a, b} : a \in UexCommodities, b \in UexCommodities}

Datasets(records) ==
    UNION {[1..n -> records] : n \in 0..MaxData}

\* the status test without its third operand
SkipInvalidStatusNoSellable(commodity) ==
    \/ commodity.IsAvailableLive = 0
    \/ commodity.IsTemporary = 1

\* main.go:173
SkipInvalidStatus(commodity) ==
    \/ commodity.IsAvailableLive = 0
    \/ commodity.IsTemporary = 1
    \/ commodity.IsSellable = 0

\* main.go:179
SkipTemporaryFree(commodity) ==
    commodity.Type = "Temporary" /\ commodity.PriceSell = 0

\* main.go:185
SkipYearOfThe(commodity) ==
    ContainsIgnoreCase(commodity.Name, StrYearOfThe)

SkipCommodity(commodity) ==
    \/ SkipInvalidStatus(commodity)
    \/ SkipTemporaryFree(commodity)
    \/ SkipYearOfThe(commodity)

\* the two rewrites in the other order: "raw" first, then "ore" overwrites it
RewriteTypeOreLast(commodity) ==
    LET t1 == IF ContainsIgnoreCase(commodity.Name, StrRaw)
              THEN "Raw" ELSE commodity.Type
        t2 == IF ContainsIgnoreCase(commodity.Name, StrOre)
              THEN "Ore" ELSE t1
    IN  [commodity EXCEPT !.Type = t2]

\* main.go:190-197: "ore" first, then "raw" overwrites it
RewriteType(commodity) ==
    LET t1 == IF ContainsIgnoreCase(commodity.Name, StrOre)
              THEN "Ore" ELSE commodity.Type
        t2 == IF ContainsIgnoreCase(commodity.Name, StrRaw)
              THEN "Raw" ELSE t1
    IN  [commodity EXCEPT !.Type = t2]

NewCommodity(rows, commodity) ==
    [id |-> NewId(rows), name |-> commodity.Name, code |-> commodity.Code,
     type |-> commodity.Type, price_buy |-> commodity.PriceBuy,
     price_sell |-> commodity.PriceSell,
     is_illegal |-> ConvertToBool(commodity.IsIllegal)]

UpdatedCommodity(existing, commodity) ==
    [existing EXCEPT !.type = commodity.Type,
                     !.price_buy = commodity.PriceBuy,
                     !.price_sell = commodity.PriceSell,
                     !.is_illegal = CastToBool(commodity.IsIllegal)]

\* The body of the transaction from record n on.  failAt is the record whose
\* Save fails (0: none does).  log holds one entry per record looked at.
RECURSIVE CommodityLoop(_, _, _, _, _)
CommodityLoop(data, n, rows, log, failAt) ==
    IF n > Len(data)
    THEN [rows |-> rows, log |-> log, err |-> FALSE]
    ELSE IF SkipCommodity(data[n])
    THEN CommodityLoop(data, n + 1, rows, Append(log, "skip"), failAt)
    ELSE LET commodity == RewriteType(data[n])
             i == FindFirstRecordByData(rows, "code", commodity.Code)
         IN  IF failAt = n
             THEN [rows |-> rows, log |-> Append(log, "fail"), err |-> TRUE]
             ELSE IF i = 0
             THEN CommodityLoop(data, n + 1,
                      Append(rows, NewCommodity(rows, commodity)),
                      Append(log, "insert"), failAt)
             ELSE CommodityLoop(data, n + 1,
                      [rows EXCEPT ![i] = UpdatedCommodity(rows[i], commodity)],
                      Append(log, "update"), failAt)

CommodityTx(data, rows, failAt) == CommodityLoop(data, 1, rows, <<>>, failAt)

\* a GET request: its path and the headers set on it
Request(path, sys, headers) ==
    [path |-> path, id_star_system |-> sys,
     content_type |-> headers, authorization |-> headers]

NoPass == [outcome |-> "none", data |-> <<>>, log |-> <<>>, requests |-> <<>>]

\* main.go:105-115: a setting that is missing ends the pass
CommoditiesConfigError ==
    /\ ~(env.url /\ env.key)
    /\ cm' = [outcome |-> "config", data |-> <<>>, log |-> <<>>,
              requests |-> <<>>]
    /\ UNCHANGED commodities

\* main.go:122-166: the request is sent and the pass ends on a transport
\* error, a status other than 200, a body that does not decode, or a missing
\* collection
CommoditiesFetchError ==
    /\ env.url /\ env.key
    /\ cm' = [outcome |-> "fetch", data |-> <<>>, log |-> <<>>,
              requests |-> <<Request("commodities", 0, TRUE)>>]
    /\ UNCHANGED commodities

\* main.go:169-237
CommoditiesReconcile ==
    /\ env.url /\ env.key
    /\ \E data \in Datasets(catalogue), failAt \in 0..MaxData :
        LET r == CommodityTx(data, commodities, failAt)
        IN  /\ failAt <= Len(data)
            /\ commodities' = RunInTransaction(commodities, r)
            /\ cm' = [outcome |-> IF r.err THEN "rollback" ELSE "ok",
                      data |-> data, log |-> r.log,
                      requests |-> <<Request("commodities", 0, TRUE)>>]

\* the passes run one after another
UpdateCommodities ==
    /\ ss.pc = "idle"
    /\ \/ CommoditiesConfigError
       \/ CommoditiesFetchError
       \/ CommoditiesReconcile
    /\ UNCHANGED <<star_systems, planets, moons, space_stations, outposts,
                   outpost_commodities, commodity_changes, catalogue,
                   uex, ss, tx, trace, hk, env>>

(***************************************************************************)
(* UpdateStarSystems: the data the UEX API serves.                         *)
(***************************************************************************)
\* an unset relation field, a nil *core.Record
Unset == 0

StarSystem(id, name, code, jurisdiction, available, visible) ==
    [UexID |-> id, Name |-> name, Code |-> code, Jurisdiction |-> jurisdiction,
     Faction |-> "UEE", IsAvailable |-> available, IsVisible |-> visible]

Planet(id, name, code) ==
    [UexID |-> id, Name |-> name, Code |-> code, Jurisdiction |-> "UEE",
     Faction |-> "UEE"]

Moon(id, name, code, planetName) ==
    [UexID |-> id, Name |-> name, Code |-> code, PlanetName |-> planetName,
     Jurisdiction |-> "UEE", Faction |-> "UEE"]

SpaceStation(id, name, systemName, planetName, moonName) ==
    [UexID |-> id, StarSystemName |-> systemName, PlanetName |-> planetName,
     MoonName |-> moonName, Name |-> name, Code |-> name, PadTypes |-> "S",
     Jurisdiction |-> "UEE", Faction |-> "UEE", HasTerminal |-> 1,
     HasRefinery |-> 2, Orbit |-> planetName, IsLagrange |-> 0]

Stanton == StarSystem(1, "Stanton", "ST", "UEE", 1, 1)
Pyro == StarSystem(2, "Pyro", "PY", "Ungoverned", 1, 1)
SystemIds == {1, 2}

\* what the API serves on an ordinary day: two systems, each with a planet,
\* a moon of that planet and a station
UexBase ==
    [systems |-> <<Stanton, Pyro>>,
     planets |-> [s \in SystemIds |->
        IF s = 1 THEN <<Planet(10, "Crusader", "CRU")>>
                 ELSE <<Planet(20, "Monox", "MON")>>],
     moons |-> [s \in SystemIds |->
        IF s = 1 THEN <<Moon(100, "Yela", "YEL", "Crusader")>>
                 ELSE <<Moon(200, "Fuego", "FUE", "Monox")>>],
     stations |-> [s \in SystemIds |->
        IF s = 1 THEN <<SpaceStation(1000, "GrimHEX", "Stanton", "Crusader", "Yela")>>
                 ELSE <<SpaceStation(2000, "Checkmate", "Pyro", "Monox", "")>>]]

UexEditions ==
    {"hidden", "available2", "none", "reversed", "renamed", "orphan",
     "foreign", "detached", "adopted", "planet_renamed"}

\* what the API serves after one change of the upstream data
UexEdition(e) ==
    CASE e = "hidden" ->
            [UexBase EXCEPT !.systems[2].IsVisible = 0]
      [] e = "available2" ->
            [UexBase EXCEPT !.systems[1].IsAvailable = 2]
      [] e = "none" ->
            [UexBase EXCEPT !.systems[1].IsAvailable = 0,
                            !.systems[2].IsAvailable = 0]
      [] e = "reversed" ->
            [UexBase EXCEPT !.systems = <<Pyro, Stanton>>]
      [] e = "renamed" ->
            [UexBase EXCEPT !.systems[1].Name = "Stanton II",
                            !.systems[1].Jurisdiction = "Advocacy",
                            !.stations[1][1].StarSystemName = "Stanton II"]
      [] e = "orphan" ->
            [UexBase EXCEPT !.moons[1] =
                <<Moon(101, "Cellin", "CEL", "Hurston"),
                  Moon(100, "Yela", "YEL", "Crusader")>>]
      [] e = "foreign" ->
            [UexBase EXCEPT !.stations[1] =
                <<SpaceStation(1000, "GrimHEX", "Stanton", "Crusader", "Yela"),
                  SpaceStation(1001, "Ruin", "Nyx", "", "")>>]
      [] e = "detached" ->
            [UexBase EXCEPT !.stations[1][1].PlanetName = ""]
      [] e = "adopted" ->
            [UexBase EXCEPT !.moons[1][1].PlanetName = "Monox"]
      [] OTHER ->
            [UexBase EXCEPT !.planets[1][1].Name = "Crusader Prime"]

(***************************************************************************)
(* UpdateStarSystems: the four reconciliation transactions.                *)
(***************************************************************************)
\* the filter without its visibility test
RelevantSystemsAvailableOnly(data) ==
    SelectSeq(data, LAMBDA system : system.IsAvailable = 1)

\* main.go:388-394
RelevantSystems(data) ==
    SelectSeq(data, LAMBDA system : system.IsAvailable = 1 /\ system.IsVisible = 1)

NewSystem(rows, system) ==
    [id |-> NewId(rows), name |-> system.Name, code |-> system.Code,
     jurisdiction |-> system.Jurisdiction, faction |-> system.Faction]

UpdatedSystem(existing, system) ==
    [existing EXCEPT !.jurisdiction = system.Jurisdiction,
                     !.faction = system.Faction]

\* main.go:404-447
RECURSIVE SystemLoop(_, _, _, _, _)
SystemLoop(data, n, rows, log, failAt) ==
    IF n > Len(data)
    THEN [rows |-> rows, log |-> log, err |-> FALSE]
    ELSE LET i == FindFirstRecordByData(rows, "code", data[n].Code)
         IN  IF failAt = n
             THEN [rows |-> rows, log |-> Append(log, "fail"), err |-> TRUE]
             ELSE IF i = 0
             THEN SystemLoop(data, n + 1, Append(rows, NewSystem(rows, data[n])),
                      Append(log, "insert"), failAt)
             ELSE SystemLoop(data, n + 1,
                      [rows EXCEPT ![i] = UpdatedSystem(rows[i], data[n])],
                      Append(log, "update"), failAt)

\* the row with a relation to the first star_systems row
NewPlanetLinked(rows, planet) ==
    [id |-> NewId(rows), name |-> planet.Name, code |-> planet.Code,
     jurisdiction |-> planet.Jurisdiction, faction |-> planet.Faction,
     star_system |-> 1]

NewPlanet(rows, planet) ==
    [id |-> NewId(rows), name |-> planet.Name, code |-> planet.Code,
     jurisdiction |-> planet.Jurisdiction, faction |-> planet.Faction]

UpdatedPlanet(existing, planet) ==
    [existing EXCEPT !.name = planet.Name, !.code = planet.Code,
                     !.jurisdiction = planet.Jurisdiction,
                     !.faction = planet.Faction]

\* main.go:496-532
RECURSIVE PlanetLoop(_, _, _, _, _)
PlanetLoop(data, n, rows, log, failAt) ==
    IF n > Len(data)
    THEN [rows |-> rows, log |-> log, err |-> FALSE]
    ELSE LET i == FindFirstRecordByData(rows, "code", data[n].Code)
         IN  IF failAt = n
             THEN [rows |-> rows, log |-> Append(log, "fail"), err |-> TRUE]
             ELSE IF i = 0
             THEN PlanetLoop(data, n + 1, Append(rows, NewPlanet(rows, data[n])),
                      Append(log, "insert"), failAt)
             ELSE PlanetLoop(data, n + 1,
                      [rows EXCEPT ![i] = UpdatedPlanet(rows[i], data[n])],
                      Append(log, "update"), failAt)

\* the row without its relation to the planet
NewMoonUnlinked(rows, moon, planetId) ==
    [id |-> NewId(rows), name |-> moon.Name, code |-> moon.Code,
     planet |-> Unset, jurisdiction |-> moon.Jurisdiction,
     faction |-> moon.Faction]

NewMoon(rows, moon, planetId) ==
    [id |-> NewId(rows), name |-> moon.Name, code |-> moon.Code,
     planet |-> planetId, jurisdiction |-> moon.Jurisdiction,
     faction |-> moon.Faction]

UpdatedMoon(existing, moon, planetId) ==
    [existing EXCEPT !.name = moon.Name, !.code = moon.Code,
                     !.planet = planetId,
                     !.jurisdiction = moon.Jurisdiction,
                     !.faction = moon.Faction]

RECURSIVE MoonLoop(_, _, _, _, _, _)

\* the lookup error returned, as the station transaction does
OrphanMoonReturned(data, n, rows, planetRows, log, failAt) ==
    [rows |-> rows, log |-> Append(log, "skip"), err |-> TRUE]

\* main.go:586-590: a moon whose planet is not found is passed over
OrphanMoon(data, n, rows, planetRows, log, failAt) ==
    MoonLoop(data, n + 1, rows, planetRows, Append(log, "skip"), failAt)

\* main.go:581-625
MoonLoop(data, n, rows, planetRows, log, failAt) ==
    IF n > Len(data)
    THEN [rows |-> rows, log |-> log, err |-> FALSE]
    ELSE LET p == FindFirstRecordByData(planetRows, "name", data[n].PlanetName)
             i == FindFirstRecordByData(rows, "code", data[n].Code)
         IN  IF p = 0
             THEN OrphanMoon(data, n, rows, planetRows, log, failAt)
             ELSE IF failAt = n
             THEN [rows |-> rows, log |-> Append(log, "fail"), err |-> TRUE]
             ELSE IF i = 0
             THEN MoonLoop(data, n + 1,
                      Append(rows, NewMoon(rows, data[n], planetRows[p].id)),
                      planetRows, Append(log, "insert"), failAt)
             ELSE MoonLoop(data, n + 1,
                      [rows EXCEPT ![i] =
                          UpdatedMoon(rows[i], data[n], planetRows[p].id)],
                      planetRows, Append(log, "update"), failAt)

\* main.go:689-708: the planet is looked up when a planet is named, the moon
\* only when a planet and a moon are named
StationPlanet(spaceStation, planetRows) ==
    IF spaceStation.PlanetName # ""
    THEN LET p == FindFirstRecordByData(planetRows, "name", spaceStation.PlanetName)
         IN  IF p = 0 THEN Unset ELSE planetRows[p].id
    ELSE Unset

StationMoon(spaceStation, moonRows) ==
    IF spaceStation.PlanetName # "" /\ spaceStation.MoonName # ""
    THEN LET m == FindFirstRecordByData(moonRows, "name", spaceStation.MoonName)
         IN  IF m = 0 THEN Unset ELSE moonRows[m].id
    ELSE Unset

NewSpaceStation(rows, spaceStation, systemId, planetId, moonId) ==
    [id |-> NewId(rows), name |-> spaceStation.Name,
     pad_types |-> spaceStation.PadTypes,
     jurisdiction |-> spaceStation.Jurisdiction,
     faction |-> spaceStation.Faction,
     has_trade_terminal |-> ConvertToBool(spaceStation.HasTerminal),
     has_refinery |-> ConvertToBool(spaceStation.HasRefinery),
     star_system |-> systemId, planet |-> planetId, moon |-> moonId,
     orbit |-> spaceStation.Orbit,
     is_lagrange |-> ConvertToBool(spaceStation.IsLagrange)]

\* main.go:740-754: planet and moon are set only when their lookup found a row
UpdatedSpaceStation(existing, spaceStation, systemId, planetId, moonId) ==
    [existing EXCEPT
        !.name = spaceStation.Name,
        !.pad_types = spaceStation.PadTypes,
        !.jurisdiction = spaceStation.Jurisdiction,
        !.faction = spaceStation.Faction,
        !.has_trade_terminal = ConvertToBool(spaceStation.HasTerminal),
        !.has_refinery = ConvertToBool(spaceStation.HasRefinery),
        !.star_system = systemId,
        !.planet = IF planetId # Unset THEN planetId ELSE @,
        !.moon = IF moonId # Unset THEN moonId ELSE @,
        !.orbit = spaceStation.Orbit,
        !.is_lagrange = ConvertToBool(spaceStation.IsLagrange)]

\* the loop left with no error, as "return nil" would
MissingSystemIgnored(rows, log) ==
    [rows |-> rows, log |-> Append(log, "nosystem"), err |-> FALSE]

\* main.go:682-687: a station whose star system is not found ends the
\* transaction with the error of the lookup
MissingSystem(rows, log) ==
    [rows |-> rows, log |-> Append(log, "nosystem"), err |-> TRUE]

\* main.go:677-764
RECURSIVE StationLoop(_, _, _, _, _, _, _, _)
StationLoop(data, n, rows, systemRows, planetRows, moonRows, log, failAt) ==
    IF n > Len(data)
    THEN [rows |-> rows, log |-> log, err |-> FALSE]
    ELSE LET s == FindFirstRecordByData(systemRows, "name", data[n].StarSystemName)
             planetId == StationPlanet(data[n], planetRows)
             moonId == StationMoon(data[n], moonRows)
             i == FindFirstRecordByData(rows, "name", data[n].Name)
         IN  IF s = 0
             THEN MissingSystem(rows, log)
             ELSE IF failAt = n
             THEN [rows |-> rows, log |-> Append(log, "fail"), err |-> TRUE]
             ELSE IF i = 0
             THEN StationLoop(data, n + 1,
                      Append(rows, NewSpaceStation(rows, data[n],
                                       systemRows[s].id, planetId, moonId)),
                      systemRows, planetRows, moonRows,
                      Append(log, "insert"), failAt)
             ELSE StationLoop(data, n + 1,
                      [rows EXCEPT ![i] = UpdatedSpaceStation(rows[i], data[n],
                                       systemRows[s].id, planetId, moonId)],
                      systemRows, planetRows, moonRows,
                      Append(log, "update"), failAt)

(***************************************************************************)
(* UpdateStarSystems: the pass, one step per fetch and its transaction.    *)
(***************************************************************************)
Idle == [pc |-> "idle", relevant |-> <<>>, i |-> 0, j |-> 0]

\* main.go:105-115, 336-344: the two settings of the .env file, each resolved
\* or not for the life of the process
Configs == [url : BOOLEAN, key : BOOLEAN]

NoFaults == [faults |-> 0, editions |-> 0, url |-> TRUE, key |-> TRUE]

NoTx == [kind |-> "none", sys |-> 0, fetched |-> <<>>, data |-> <<>>,
         log |-> <<>>, err |-> FALSE]

Fetched(kind, sys, headers, status) ==
    [ev |-> "fetch", kind |-> kind, sys |-> sys, headers |-> headers,
     status |-> status, log |-> <<>>]

Committed(kind, sys, r) ==
    [ev |-> "tx", kind |-> kind, sys |-> sys, headers |-> FALSE,
     status |-> IF r.err THEN "rollback" ELSE "commit", log |-> r.log]

\* a Save may fail while the budget of failures lasts
FailChoices(data) ==
    IF env.faults < MaxFaults THEN 0..Len(data) ELSE {0}

Faulted(r) ==
    [env EXCEPT !.faults = IF r.err /\ r.log[Len(r.log)] = "fail" THEN @ + 1 ELSE @]

OtherStores == <<commodities, outposts, outpost_commodities, commodity_changes,
                 catalogue, cm, hk>>

\* the upstream data changes between two passes
UexChange ==
    /\ ss.pc = "idle"
    /\ env.editions < MaxEditions
    /\ \E e \in UexEditions : uex' = UexEdition(e)
    /\ env' = [env EXCEPT !.editions = @ + 1]
    /\ UNCHANGED <<star_systems, planets, moons, space_stations, ss, tx, trace>>
    /\ UNCHANGED OtherStores

\* main.go:336-386: a missing setting is logged and the pass goes on; with no
\* base URL the request has no host and client.Do fails before sending it;
\* a request that was sent may fail, or be answered by a status other than
\* 200 or a body that does not decode
StarSystemsFetchError ==
    /\ ss.pc = "idle"
    /\ trace' = IF env.url THEN <<Fetched("star_systems", 0, TRUE, "failed")>>
                 ELSE <<>>
    /\ tx' = NoTx
    /\ UNCHANGED <<star_systems, planets, moons, space_stations, ss, uex, env>>
    /\ UNCHANGED OtherStores

\* main.go:388-447: filter, then one transaction; its error is dropped
StarSystemsReconcile ==
    /\ ss.pc = "idle"
    /\ env.url
    /\ LET relevant == RelevantSystems(uex.systems)
       IN  \E failAt \in FailChoices(relevant) :
            LET r == SystemLoop(relevant, 1, star_systems, <<>>, failAt)
            IN  /\ star_systems' = RunInTransaction(star_systems, r)
                /\ tx' = [kind |-> "star_systems", sys |-> 0,
                          fetched |-> uex.systems, data |-> relevant,
                          log |-> r.log, err |-> r.err]
                /\ trace' = <<Fetched("star_systems", 0, TRUE, "ok"),
                              Committed("star_systems", 0, r)>>
                /\ env' = Faulted(r)
                /\ ss' = IF relevant = <<>> THEN Idle
                         ELSE [pc |-> "planets", relevant |-> relevant,
                               i |-> 1, j |-> 0]
    /\ UNCHANGED <<planets, moons, space_stations, uex>>
    /\ UNCHANGED OtherStores

\* main.go:452-494, 537-579, 633-675: a fetch that fails ends the pass
ChildFetchError ==
    /\ ss.pc \in {"planets", "moons", "space_stations"}
    /\ trace' = Append(trace,
            Fetched(ss.pc, ss.relevant[IF ss.pc = "planets" THEN ss.i ELSE ss.j].UexID,
                    FALSE, "failed"))
    /\ ss' = Idle
    /\ tx' = NoTx
    /\ UNCHANGED <<star_systems, planets, moons, space_stations, uex, env>>
    /\ UNCHANGED OtherStores

\* main.go:450-532: the planets of system i
PlanetsReconcile ==
    /\ ss.pc = "planets"
    /\ LET sys == ss.relevant[ss.i].UexID
           data == uex.planets[sys]
       IN  \E failAt \in FailChoices(data) :
            LET r == PlanetLoop(data, 1, planets, <<>>, failAt)
            IN  /\ planets' = RunInTransaction(planets, r)
                /\ tx' = [kind |-> "planets", sys |-> sys, fetched |-> data,
                          data |-> data, log |-> r.log, err |-> r.err]
                /\ trace' = trace \o <<Fetched("planets", sys, FALSE, "ok"),
                                       Committed("planets", sys, r)>>
                /\ env' = Faulted(r)
    /\ ss' = [ss EXCEPT !.pc = "moons", !.j = 1]
    /\ UNCHANGED <<star_systems, moons, space_stations, uex>>
    /\ UNCHANGED OtherStores

\* main.go:534-626: inside the planets loop, the moons of every system j
MoonsReconcile ==
    /\ ss.pc = "moons"
    /\ LET sys == ss.relevant[ss.j].UexID
           data == uex.moons[sys]
       IN  \E failAt \in FailChoices(data) :
            LET r == MoonLoop(data, 1, moons, planets, <<>>, failAt)
            IN  /\ moons' = RunInTransaction(moons, r)
                /\ tx' = [kind |-> "moons", sys |-> sys, fetched |-> data,
                          data |-> data, log |-> r.log, err |-> r.err]
                /\ trace' = trace \o <<Fetched("moons", sys, FALSE, "ok"),
                                       Committed("moons", sys, r)>>
                /\ env' = Faulted(r)
    /\ ss' = IF ss.j < Len(ss.relevant)
             THEN [ss EXCEPT !.j = @ + 1]
             ELSE [ss EXCEPT !.pc = "space_stations", !.j = 1]
    /\ UNCHANGED <<star_systems, planets, space_stations, uex>>
    /\ UNCHANGED OtherStores

\* main.go:628-766: inside the planets loop, the stations of every system j
SpaceStationsReconcile ==
    /\ ss.pc = "space_stations"
    /\ LET sys == ss.relevant[ss.j].UexID
           data == uex.stations[sys]
       IN  \E failAt \in FailChoices(data) :
            LET r == StationLoop(data, 1, space_stations, star_systems,
                                 planets, moons, <<>>, failAt)
            IN  /\ space_stations' = RunInTransaction(space_stations, r)
                /\ tx' = [kind |-> "space_stations", sys |-> sys,
                          fetched |-> data, data |-> data, log |-> r.log,
                          err |-> r.err]
                /\ trace' = trace \o <<Fetched("space_stations", sys, FALSE, "ok"),
                                       Committed("space_stations", sys, r)>>
                /\ env' = Faulted(r)
    /\ ss' = IF ss.j < Len(ss.relevant)
             THEN [ss EXCEPT !.j = @ + 1]
             ELSE IF ss.i < Len(ss.relevant)
             THEN [ss EXCEPT !.pc = "planets", !.i = @ + 1, !.j = 0]
             ELSE Idle
    /\ UNCHANGED <<star_systems, planets, moons, uex>>
    /\ UNCHANGED OtherStores

UpdateStarSystems ==
    \/ StarSystemsFetchError
    \/ StarSystemsReconcile
    \/ ChildFetchError
    \/ PlanetsReconcile
    \/ MoonsReconcile
    \/ SpaceStationsReconcile

(***************************************************************************)
(* The hooks.                                                              *)
(***************************************************************************)
Amounts == {0, 5, 8}

NoHook == [op |-> "none", record |-> 0, err |-> FALSE, persisted |-> FALSE]

\* the row linked to the outpost in both relation fields
NewOutpostCommodityMislinked(rows, outpostId, commodityId) ==
    [id |-> NewId(rows), outpost |-> outpostId, commodity |-> outpostId,
     amount |-> 0]

NewOutpostCommodity(rows, outpostId, commodityId) ==
    [id |-> NewId(rows), outpost |-> outpostId, commodity |-> commodityId,
     amount |-> 0]

\* createOutpostCommodities.go:36-50
RECURSIVE OutpostCommodityLoop(_, _, _, _, _)
OutpostCommodityLoop(found, n, rows, outpostId, failAt) ==
    IF n > Len(found)
    THEN [rows |-> rows, err |-> FALSE]
    ELSE IF failAt = n
    THEN [rows |-> rows, err |-> TRUE]
    ELSE OutpostCommodityLoop(found, n + 1,
             Append(rows, NewOutpostCommodity(rows, outpostId, found[n].id)),
             outpostId, failAt)

\* createOutpostCommodities.go:12-56
CreateOutpostCommodities(record, failAt) ==
    LET r == OutpostCommodityLoop(commodities, 1, outpost_commodities,
                                  record.id, failAt)
    IN  /\ outpost_commodities' = RunInTransaction(outpost_commodities, r)
        /\ hk' = [op |-> "create", record |-> record.id, err |-> r.err,
                  persisted |-> TRUE]

\* main.go:46-49: an outposts record was created, then the hook runs
OutpostCreated ==
    /\ Len(outposts) < MaxOutposts
    /\ LET record == [id |-> NewId(outposts)]
       IN  /\ outposts' = Append(outposts, record)
           /\ \E failAt \in 0..Len(commodities) :
                CreateOutpostCommodities(record, failAt)
    /\ UNCHANGED <<commodities, star_systems, planets, moons, space_stations,
                   commodity_changes, catalogue, cm, uex, ss, tx, trace, env>>

NewCommodityChange(rows, record, original) ==
    [id |-> NewId(rows), outpost_commodity |-> record.id,
     commodity |-> record.commodity,
     change_amount |-> record.amount - original.amount]

\* createOutpostCommodities.go:74-121: the error of the transaction is dropped
CreateCommodityChanges(record, original, saveFails) ==
    LET r == IF saveFails
             THEN [rows |-> commodity_changes, err |-> TRUE]
             ELSE [rows |-> Append(commodity_changes,
                       NewCommodityChange(commodity_changes, record, original)),
                   err |-> FALSE]
    IN  commodity_changes' = RunInTransaction(commodity_changes, r)

\* main.go:51-54: the hook runs, then e.Next() writes the record
OutpostCommodityUpdated ==
    /\ Len(commodity_changes) < MaxChangeRows
    /\ \E k \in 1..Len(outpost_commodities), amount \in Amounts,
          saveFails \in BOOLEAN, executeFails \in BOOLEAN :
        LET original == outpost_commodities[k]
            record == [original EXCEPT !.amount = amount]
        IN  /\ CreateCommodityChanges(record, original, saveFails)
            /\ outpost_commodities' =
                  IF executeFails THEN outpost_commodities
                  ELSE [outpost_commodities EXCEPT ![k] = record]
            /\ hk' = [op |-> "update", record |-> record.id, err |-> saveFails,
                      persisted |-> ~executeFails]
    /\ UNCHANGED <<commodities, star_systems, planets, moons, space_stations,
                   outposts, catalogue, cm, uex, ss, tx, trace, env>>

InitStore ==
    /\ commodities = <<>>
    /\ star_systems = <<>>
    /\ planets = <<>>
    /\ moons = <<>>
    /\ space_stations = <<>>
    /\ outposts = <<>>
    /\ outpost_commodities = <<>>
    /\ commodity_changes = <<>>

InitRest ==
    /\ cm = NoPass
    /\ ss = Idle
    /\ tx = NoTx
    /\ trace = <<>>
    /\ hk = NoHook

\* main.go:18-22: the settings are read once, when the process starts
InitEnv ==
    env \in {[NoFaults EXCEPT !.url = c.url, !.key = c.key] : c \in Configs}

\* the commodity pass alone, over every pair of record versions
InitCommodities ==
    /\ InitStore
    /\ InitRest
    /\ InitEnv
    /\ catalogue \in Catalogues
    /\ uex = <<>>

NextCommodities == UpdateCommodities

SpecCommodities == InitCommodities /\ [][NextCommodities]_vars

\* the star-system pass alone, the upstream data changing between passes
InitStarSystems ==
    /\ InitStore
    /\ InitRest
    /\ InitEnv
    /\ catalogue = {}
    /\ uex = UexBase

NextStarSystems ==
    \/ UexChange
    \/ UpdateStarSystems

SpecStarSystems == InitStarSystems /\ [][NextStarSystems]_vars

EverydayCatalogue == {BaseCommodity(code) : code \in CommodityCodes}

\* the hooks alone, over the commodities a pass has stored
InitHooks ==
    /\ commodities \in {CommodityTx(data, <<>>, 0).rows :
                            data \in Datasets(EverydayCatalogue)}
    /\ star_systems = <<>>
    /\ planets = <<>>
    /\ moons = <<>>
    /\ space_stations = <<>>
    /\ outposts = <<>>
    /\ outpost_commodities = <<>>
    /\ commodity_changes = <<>>
    /\ InitRest
    /\ env = NoFaults
    /\ catalogue = EverydayCatalogue
    /\ uex = <<>>

NextHooks ==
    \/ OutpostCreated
    \/ OutpostCommodityUpdated

SpecHooks == InitHooks /\ [][NextHooks]_vars

\* both passes, one after another, over the everyday data
InitSync ==
    /\ InitStore
    /\ InitRest
    /\ InitEnv
    /\ catalogue = {BaseCommodity("GOLD")}
    /\ uex = UexBase

NextSync ==
    \/ UpdateCommodities
    \/ UpdateStarSystems

SpecSync == InitSync /\ [][NextSync]_vars

(***************************************************************************)
(* Properties of UpdateCommodities.                                        *)
(***************************************************************************)
Written == {"insert", "update"}

\* the rows of a collection that carry a code
RowsWithCode(rows, code) == {i \in 1..Len(rows) : rows[i].code = code}

\* a record that matches a skip rule, a flag being true only when it is 1
MatchesSkipRule(commodity) ==
    \/ ~ConvertToBool(commodity.IsAvailableLive)
    \/ ConvertToBool(commodity.IsTemporary)
    \/ ~ConvertToBool(commodity.IsSellable)
    \/ (commodity.Type = "Temporary" /\ commodity.PriceSell = 0)
    \/ ContainsIgnoreCase(commodity.Name, StrYearOfThe)

\* C1: in a pass of UpdateCommodities, a record that matches a skip rule
\* (not available-live, temporary, not sellable, a flag being true only when
\* it is 1; type "Temporary" at sell price 0; a name with "year of the")
\* causes no insert and no update of a commodities row.
C1_SkippedNeverWritten ==
    \A n \in 1..Len(cm.log) :
        MatchesSkipRule(cm.data[n]) => cm.log[n] \notin Written

\* a record the pass does not skip for its status, read as the code reads it
PassesStatusFilter(commodity) ==
    /\ commodity.IsAvailableLive # 0
    /\ commodity.IsTemporary # 1
    /\ commodity.IsSellable # 0

QualifiesIn(data, code) ==
    \E n \in 1..Len(data) :
        data[n].Code = code /\ PassesStatusFilter(data[n])

\* C2 as claimed: after a successful pass every commodities row belongs to a
\* commodity that is available-live, not temporary and sellable in the dataset
\* of that pass; a commodity that stopped qualifying is not left persisted.
C2_OnlyQualifyingPersisted ==
    cm.outcome = "ok" =>
        \A i \in 1..Len(commodities) : QualifiesIn(cm.data, commodities[i].code)

\* C2 as amended: every commodities row that a pass inserts or changes belongs
\* to a record of that pass's dataset that is not skipped for its status, and a
\* pass never removes a row nor changes its code: a commodity stored earlier
\* stays persisted when it stops qualifying.
C2_WrittenRowsQualify ==
    [][/\ Len(commodities') >= Len(commodities)
       /\ \A i \in 1..Len(commodities) :
            /\ commodities'[i].id = commodities[i].id
            /\ commodities'[i].code = commodities[i].code
       /\ \A i \in 1..Len(commodities') :
            (i > Len(commodities) \/ commodities'[i] # commodities[i])
                => QualifiesIn(cm'.data, commodities'[i].code)]_vars

\* C2 witness: a pass wrote a row while a row of an earlier pass, whose
\* commodity no longer qualifies, is still stored.
C2_Witness ==
    /\ cm.outcome = "ok"
    /\ \E n \in 1..Len(cm.log) : cm.log[n] \in Written
    /\ \E i \in 1..Len(commodities) : ~QualifiesIn(cm.data, commodities[i].code)

\* C4: two passes in succession over the same upstream dataset leave the
\* collection after the second as it was after the first: the same rows, the
\* same value in every field, at most one row per code.
C4_SecondPassChangesNothing ==
    [][(cm.outcome = "ok" /\ cm'.outcome = "ok" /\ cm'.data = cm.data)
            => /\ commodities' = commodities
               /\ \A i, j \in 1..Len(commodities') :
                    commodities'[i].code = commodities'[j].code => i = j]_vars

(***************************************************************************)
(* Properties of UpdateStarSystems.                                        *)
(***************************************************************************)
\* the step is a transaction of the given kind
TxStep(kind) == ss.pc = kind /\ tx'.kind = kind

\* C3: in a pass whose star-system fetch and transaction succeed, a
\* star_systems row is inserted or updated for an upstream system if and only
\* if its available flag is true and its visible flag is true; the row then
\* stored under its code carries its jurisdiction.
C3_WrittenIffAvailableAndVisible ==
    (tx.kind = "star_systems" /\ ~tx.err) =>
        \A k \in 1..Len(tx.fetched) :
            LET system == tx.fetched[k]
                saved == \E n \in 1..Len(tx.log) :
                            tx.data[n] = system /\ tx.log[n] \in Written
            IN  /\ saved <=> (ConvertToBool(system.IsAvailable)
                                /\ ConvertToBool(system.IsVisible))
                /\ saved => \E i \in RowsWithCode(star_systems, system.Code) :
                                star_systems[i].jurisdiction = system.Jurisdiction

\* C3 witness: a committed star-system transaction that saved one system of
\* the response and passed over another one.
C3_Witness ==
    /\ tx.kind = "star_systems"
    /\ ~tx.err
    /\ \E n \in 1..Len(tx.log) : tx.log[n] \in Written
    /\ Len(tx.data) < Len(tx.fetched)

\* the last entry of the trace is a transaction that was rolled back
RolledBack(t) == t # <<>> /\ t[Len(t)].ev = "tx" /\ t[Len(t)].status = "rollback"

\* the collections a step leaves as they were
Kept == <<commodities = commodities', star_systems = star_systems',
          planets = planets', moons = moons',
          space_stations = space_stations'>>

\* C5 as claimed: when the write of a record fails, no write of that kind made
\* in that pass is committed.  For the kinds reconciled once per star system:
\* a pass in which a transaction of a kind failed on a Save holds no committed
\* transaction of that kind that saved a record.
C5_NoWriteOfTheKindCommitted ==
    \A a, b \in 1..Len(trace) :
        (/\ trace[a].ev = "tx" /\ trace[b].ev = "tx"
         /\ trace[a].kind = trace[b].kind
         /\ trace[a].status = "rollback"
         /\ trace[a].log # <<>> /\ trace[a].log[Len(trace[a].log)] = "fail")
        => ~(/\ trace[b].status = "commit"
             /\ \E n \in 1..Len(trace[b].log) : trace[b].log[n] \in Written)

\* C5 as amended: a transaction whose record write fails commits none of its
\* writes, the collection of its kind staying as it was before that
\* transaction: for commodities and star systems, reconciled in one transaction
\* a pass, as it was before the pass; for planets, moons and space stations,
\* reconciled in one transaction per star system, the transactions of the same
\* pass committed earlier stay committed.  A step writes one kind only.
C5_FailedTransactionCommitsNothing ==
    [][/\ (cm'.outcome = "rollback" /\ trace' = trace)
            => commodities' = commodities
       /\ (trace' # trace /\ RolledBack(trace'))
            => /\ star_systems' = star_systems
               /\ planets' = planets
               /\ moons' = moons
               /\ space_stations' = space_stations
       /\ Cardinality({k \in 1..Len(Kept) : ~Kept[k]}) <= 1]_vars

\* C5 witness: the planets transaction of the second system was rolled back on
\* a failed Save while the planets of the first system, saved earlier in the
\* same pass, are committed.
C5_Witness ==
    \E a, b \in 1..Len(trace) :
        /\ a < b
        /\ trace[a].ev = "tx" /\ trace[a].kind = "planets"
        /\ trace[a].status = "commit" /\ trace[a].log = <<"insert">>
        /\ trace[b].ev = "tx" /\ trace[b].kind = "planets"
        /\ trace[b].status = "rollback" /\ trace[b].log = <<"fail">>
        /\ Len(planets) = 1

\* the planet a moon names is not in the planets collection
Orphan(moon) == FindFirstRecordByData(planets, "name", moon.PlanetName) = 0

\* C9: a moon whose named planet is not found is skipped: no moons row is
\* inserted or updated for it, the transaction returns no error for it, and
\* the other moons of the batch are reconciled and committed.
C9_OrphanMoonSkipped ==
    [][TxStep("moons") =>
        /\ \A n \in 1..Len(tx'.data) :
            Orphan(tx'.data[n]) =>
                /\ n <= Len(tx'.log) => tx'.log[n] = "skip"
                /\ \A i \in 1..Len(moons') :
                    moons'[i].code = tx'.data[n].Code
                        => i <= Len(moons) /\ moons[i] = moons'[i]
        /\ tx'.err => (tx'.log[Len(tx'.log)] = "fail"
                        /\ ~Orphan(tx'.data[Len(tx'.log)]))
        /\ ~tx'.err =>
            \A n \in 1..Len(tx'.data) :
                ~Orphan(tx'.data[n]) =>
                    \E i \in RowsWithCode(moons', tx'.data[n].Code) :
                        /\ moons'[i].name = tx'.data[n].Name
                        /\ moons'[i].planet =
                            planets[FindFirstRecordByData(planets, "name",
                                        tx'.data[n].PlanetName)].id]_vars

\* C9 witness: a committed moon transaction that skipped a moon and saved
\* the moon that follows it in the batch.
C9_Witness ==
    /\ tx.kind = "moons"
    /\ ~tx.err
    /\ Len(tx.log) = 2
    /\ tx.log[1] = "skip"
    /\ tx.log[2] \in Written
    /\ Orphan(tx.data[1])
    /\ RowsWithCode(moons, tx.data[1].Code) = {}
    /\ RowsWithCode(moons, tx.data[2].Code) # {}

\* C10: when a space station of a batch names a star system that is not found
\* by name, the station transaction of that batch returns an error and none
\* of its writes is committed, those of the stations before it included.
C10_MissingSystemAbortsBatch ==
    [][TxStep("space_stations") =>
        ((\E n \in 1..Len(tx'.data) :
            FindFirstRecordByData(star_systems, "name",
                                  tx'.data[n].StarSystemName) = 0)
            => (tx'.err /\ space_stations' = space_stations))]_vars

\* C10 witness: a station transaction that saved a station, then met a station
\* whose star system is not found, and whose first station is not stored.
C10_Witness ==
    /\ tx.kind = "space_stations"
    /\ tx.err
    /\ Len(tx.log) = 2
    /\ tx.log[1] = "insert"
    /\ tx.log[2] = "nosystem"
    /\ FindFirstRecordByData(space_stations, "name", tx.data[1].Name) = 0

(***************************************************************************)
(* Properties of the hooks.                                                *)
(***************************************************************************)
\* the rows of outpost_commodities of an outpost
RowsOfOutpost(outpostId) ==
    {i \in 1..Len(outpost_commodities) :
        outpost_commodities[i].outpost = outpostId}

\* C6: when an outposts record is created and CreateOutpostCommodities ends
\* without a store error, outpost_commodities holds for that outpost exactly
\* one row per commodity of the commodities collection, each linking the
\* outpost and the commodity with amount 0, and no other row of that outpost.
C6_OneRowPerCommodity ==
    (hk.op = "create" /\ ~hk.err) =>
        /\ \A c \in 1..Len(commodities) :
            Cardinality({i \in RowsOfOutpost(hk.record) :
                outpost_commodities[i].commodity = commodities[c].id}) = 1
        /\ \A i \in RowsOfOutpost(hk.record) :
            /\ outpost_commodities[i].amount = 0
            /\ \E c \in 1..Len(commodities) :
                outpost_commodities[i].commodity = commodities[c].id
        /\ Cardinality(RowsOfOutpost(hk.record)) = Len(commodities)

\* C6 witness: the hook ended without error for a second outpost, two
\* commodities being stored.
C6_Witness ==
    /\ hk.op = "create"
    /\ ~hk.err
    /\ hk.record = 2
    /\ Len(commodities) = 2
    /\ Cardinality(RowsOfOutpost(1)) = 2
    /\ Cardinality(RowsOfOutpost(2)) = 2

\* the step writes a new amount into row k of outpost_commodities
AmountUpdated(k) ==
    /\ Len(outpost_commodities') = Len(outpost_commodities)
    /\ outpost_commodities'[k] # outpost_commodities[k]

\* C7: for every update of an outpost_commodities record,
\* CreateCommodityChanges appends exactly one commodity_changes row, linking
\* the record and its commodity, whose change_amount is the new amount minus
\* the amount of the snapshot taken before the update.
C7_OneChangeRowPerUpdate ==
    [][\A k \in 1..Len(outpost_commodities) :
        AmountUpdated(k) =>
            /\ Len(commodity_changes') = Len(commodity_changes) + 1
            /\ LET change == commodity_changes'[Len(commodity_changes')]
               IN  /\ change.outpost_commodity = outpost_commodities[k].id
                   /\ change.commodity = outpost_commodities'[k].commodity
                   /\ change.change_amount =
                        outpost_commodities'[k].amount
                            - outpost_commodities[k].amount]_vars

\* C8: when saving the commodity_changes row fails, the failure aborts the
\* operation: no update of an amount is persisted without its change row.
C8_FailedSaveAbortsUpdate ==
    (hk.op = "update" /\ hk.err) => ~hk.persisted

(***************************************************************************)
(* Properties of the planets rows.                                         *)
(***************************************************************************)
\* the planets transaction of the last step committed
PlanetsCommitted == tx.kind = "planets" /\ ~tx.err

\* the star_systems row of the system with the external id sys
SystemRowOf(sys) ==
    {s \in 1..Len(star_systems) :
        \E k \in 1..Len(uex.systems) :
            /\ uex.systems[k].UexID = sys
            /\ star_systems[s].code = uex.systems[k].Code}

\* C11 as claimed: every planets row written for a planet fetched under a
\* star system's external id is stored with a reference that resolves to the
\* star_systems row of that system.
C11_PlanetRowResolvesToSystem ==
    PlanetsCommitted =>
        \A n \in 1..Len(tx.data) :
            LET i == FindFirstRecordByData(planets, "code", tx.data[n].Code)
            IN  /\ i # 0
                /\ "star_system" \in DOMAIN planets[i]
                /\ \E s \in SystemRowOf(tx.sys) :
                    star_systems[s].id = planets[i].star_system

\* C11 as amended: every planets row holds the name, code, jurisdiction and
\* faction of the fetched planet and nothing else; it stores no reference to a
\* star system, the system being only the scope of the fetch.
C11_PlanetRowHasNoSystemReference ==
    /\ \A i \in 1..Len(planets) :
        DOMAIN planets[i] = {"id", "name", "code", "jurisdiction", "faction"}
    /\ PlanetsCommitted =>
        \A n \in 1..Len(tx.data) :
            LET i == FindFirstRecordByData(planets, "code", tx.data[n].Code)
            IN  /\ i # 0
                /\ planets[i].name = tx.data[n].Name
                /\ planets[i].jurisdiction = tx.data[n].Jurisdiction
                /\ planets[i].faction = tx.data[n].Faction

\* C11 witness: the planet Crusader, fetched under Stanton's id, is stored
\* while Stanton has its star_systems row.
C11_Witness ==
    /\ PlanetsCommitted
    /\ tx.sys = 1
    /\ FindFirstRecordByData(planets, "code", "CRU") # 0
    /\ SystemRowOf(1) # {}

(***************************************************************************)
(* Properties of the configuration.                                        *)
(***************************************************************************)
\* C12: when the API base URL or the API key is not resolved from the
\* configuration, no sync pass (UpdateCommodities or UpdateStarSystems) sends
\* a request or writes to the store: the settings being those of the whole
\* run, no request was ever sent and the five collections are as they
\* started, empty.
C12_MissingSettingAbortsPass ==
    ~(env.url /\ env.key) =>
        /\ cm.requests = <<>>
        /\ trace = <<>>
        /\ commodities = <<>>
        /\ star_systems = <<>>
        /\ planets = <<>>
        /\ moons = <<>>
        /\ space_stations = <<>>

(***************************************************************************)
(* Properties of the commodity type.                                       *)
(***************************************************************************)
\* the type a record is to be stored with
ExpectedType(commodity) ==
    IF ContainsIgnoreCase(commodity.Name, StrRaw) THEN "Raw"
    ELSE IF ContainsIgnoreCase(commodity.Name, StrOre) THEN "Ore"
    ELSE commodity.Type

\* record n of the last pass was written and no later record of the pass
\* wrote the row of the same code
LastWrite(n) ==
    /\ cm.log[n] \in Written
    /\ \A m \in (n + 1)..Len(cm.log) :
        cm.log[m] \in Written => cm.data[m].Code # cm.data[n].Code

\* C13: for every commodity that passes the skip rules, the type written to
\* the store is "Ore" when its name contains "ore" and not "raw", "Raw" when
\* its name contains "raw" (also when it contains "ore" too), and the upstream
\* type otherwise, case being ignored.
C13_TypeWritten ==
    cm.outcome = "ok" =>
        \A n \in 1..Len(cm.log) :
            LastWrite(n) =>
                \E i \in 1..Len(commodities) :
                    /\ commodities[i].code = cm.data[n].Code
                    /\ commodities[i].type = ExpectedType(cm.data[n])

\* C13 witness: a pass wrote a record named "Raw Ore" with type "Raw", one
\* named "Gold Ore" with type "Ore" and upstream type "Metal".
C13_Witness ==
    /\ cm.outcome = "ok"
    /\ Len(cm.log) = 2
    /\ LastWrite(1) /\ LastWrite(2)
    /\ cm.data[1].Name = NameRawOre /\ cm.data[1].Type = "Metal"
    /\ cm.data[2].Name = NameGoldOre /\ cm.data[2].Type = "Metal"
    /\ \E i, j \in 1..Len(commodities) :
        /\ commodities[i].code = cm.data[1].Code /\ commodities[i].type = "Raw"
        /\ commodities[j].code = cm.data[2].Code /\ commodities[j].type = "Ore"

(***************************************************************************)
(* Properties of the order and the number of the fetches of a pass.        *)
(***************************************************************************)
\* the positions of the trace t that hold an event ev of a kind for a system
Events(t, ev, kind, sys) ==
    {k \in 1..Len(t) : t[k].ev = ev /\ t[k].kind = kind /\ t[k].sys = sys}

\* before position k of the trace, a transaction of the kind ran for sys
ReconciledBefore(k, kind, sys) ==
    \E h \in Events(trace, "tx", kind, sys) : h < k

\* C14: within one invocation of UpdateStarSystems, the moons of a relevant
\* system S are fetched and reconciled only after the planets of S have been
\* reconciled, and the space stations of S only after the planets and the
\* moons of S have been reconciled.
C14_ChildrenAfterParents ==
    \A k \in 1..Len(trace) :
        /\ trace[k].kind = "moons" =>
            ReconciledBefore(k, "planets", trace[k].sys)
        /\ trace[k].kind = "space_stations" =>
            /\ ReconciledBefore(k, "planets", trace[k].sys)
            /\ ReconciledBefore(k, "moons", trace[k].sys)

ChildKinds == {"planets", "moons", "space_stations"}

\* the step ends a pass that ran through all of its loops
PassCompleted ==
    /\ ss.pc = "space_stations"
    /\ ss'.pc = "idle"
    /\ tx'.kind = "space_stations"

\* C15: in an invocation with N relevant star systems in which every fetch
\* succeeds, each of the planets, moons and space_stations endpoints is
\* fetched exactly once per star system, N times per kind, and each fetch is
\* followed by exactly one reconciliation transaction.
C15_OneFetchPerSystemAndKind ==
    [][PassCompleted =>
        \A kind \in ChildKinds :
            /\ \A n \in 1..Len(ss.relevant) :
                /\ Cardinality(Events(trace', "fetch", kind,
                                      ss.relevant[n].UexID)) = 1
                /\ Cardinality(Events(trace', "tx", kind,
                                      ss.relevant[n].UexID)) = 1
            /\ Cardinality({k \in 1..Len(trace') :
                    trace'[k].ev = "fetch" /\ trace'[k].kind = kind})
                = Len(ss.relevant)]_vars

(***************************************************************************)
(* Properties of the references of a space station.                        *)
(***************************************************************************)
\* the space-stations transaction of the last step committed
StationsCommitted == tx.kind = "space_stations" /\ ~tx.err

\* the record names no planet (no moon), or the store has no row of that name
NoPlanetFor(spaceStation) ==
    \/ spaceStation.PlanetName = ""
    \/ FindFirstRecordByData(planets, "name", spaceStation.PlanetName) = 0

NoMoonFor(spaceStation) ==
    \/ spaceStation.MoonName = ""
    \/ FindFirstRecordByData(moons, "name", spaceStation.MoonName) = 0

\* C16: after a space station is reconciled, by insert or by update, its
\* planet reference (its moon reference) is unset whenever the planet name
\* (the moon name) of the record is empty or is not found in the store; a
\* reference stored earlier does not survive.
C16_MissingParentLeavesReferenceUnset ==
    StationsCommitted =>
        \A n \in 1..Len(tx.log) :
            tx.log[n] \in Written =>
                LET i == FindFirstRecordByData(space_stations, "name",
                                               tx.data[n].Name)
                IN  /\ i # 0
                    /\ NoPlanetFor(tx.data[n]) => space_stations[i].planet = Unset
                    /\ NoMoonFor(tx.data[n]) => space_stations[i].moon = Unset

(***************************************************************************)
(* Properties of the update of an existing record.                         *)
(***************************************************************************)
\* the last pass of UpdateCommodities: a record that updated the row of its
\* code left every field but the code at the upstream value
CommodityUpdateOverwrites ==
    cm.outcome = "ok" =>
        \A n \in 1..Len(cm.log) :
            (LastWrite(n) /\ cm.log[n] = "update") =>
                \E i \in 1..Len(commodities) :
                    /\ commodities[i].code = cm.data[n].Code
                    /\ commodities[i].name = cm.data[n].Name
                    /\ commodities[i].type = RewriteType(cm.data[n]).Type
                    /\ commodities[i].price_buy = cm.data[n].PriceBuy
                    /\ commodities[i].price_sell = cm.data[n].PriceSell

\* the star-systems transaction of the last step: a system that updated the
\* row of its code left every field but the code at the upstream value
SystemUpdateOverwrites ==
    (tx.kind = "star_systems" /\ ~tx.err) =>
        \A n \in 1..Len(tx.log) :
            tx.log[n] = "update" =>
                \E i \in 1..Len(star_systems) :
                    /\ star_systems[i].code = tx.data[n].Code
                    /\ star_systems[i].name = tx.data[n].Name
                    /\ star_systems[i].jurisdiction = tx.data[n].Jurisdiction
                    /\ star_systems[i].faction = tx.data[n].Faction

\* C17: when reconciliation finds an existing record by its natural key,
\* every mapped field other than the key is overwritten with the upstream
\* value, the name included for commodities and star systems, and the key
\* keeps its value.
C17_UpdateOverwritesAllFields ==
    /\ CommodityUpdateOverwrites
    /\ SystemUpdateOverwrites

(***************************************************************************)
(* Properties of the requests.                                             *)
(***************************************************************************)
\* C18: every GET request a sync pass sends, each planets, moons and
\* space_stations request included, carries the Authorization bearer header
\* and the Content-Type: application/json header.
C18_EveryRequestCarriesHeaders ==
    /\ \A k \in 1..Len(cm.requests) :
        cm.requests[k].authorization /\ cm.requests[k].content_type
    /\ \A k \in 1..Len(trace) :
        trace[k].ev = "fetch" => trace[k].headers

(***************************************************************************)
(* Properties of the moons rows after a complete pass.                     *)
(***************************************************************************)
\* every transaction of the trace t committed
AllCommitted(t) ==
    \A k \in 1..Len(t) : t[k].ev = "tx" => t[k].status = "commit"

\* the planets the pass was served for its relevant systems
PlanetsServed ==
    UNION {{uex.planets[ss.relevant[n].UexID][k] :
                k \in 1..Len(uex.planets[ss.relevant[n].UexID])} :
           n \in 1..Len(ss.relevant)}

MoonsServed ==
    UNION {{uex.moons[ss.relevant[n].UexID][k] :
                k \in 1..Len(uex.moons[ss.relevant[n].UexID])} :
           n \in 1..Len(ss.relevant)}

=============================================================================
